---- MODULE Spec2Model ----
(***************************************************************************)
(* Model of hyprland-utils (src/src/main.rs): the toggle-float,            *)
(* toggle-fullscreen and screenshot commands run against a compositor, and *)
(* the Geometry text codec (FromStr / Display); grab_window's feeding of   *)
(* the selection tool (SpecFeed) and two screenshots run at once (SpecRace)*)
(* have specifications of their own.                                       *)
(*                                                                         *)
(* Text is a sequence of one-character strings.  Numbers with a fractional *)
(* part (the f32 values of toggle_float) are kept exactly, as integers in  *)
(* units of 1/(4*scale numerator); the scales of the model are 1, 2 and 4 and  *)
(* the sizes below 2^16, for which the f32 arithmetic of the code is exact.*)
(***************************************************************************)
EXTENDS Integers, Sequences, FiniteSets, TLC

VARIABLES
    cinput,     \* codec: the input drawn for the codec (a rectangle or a text)
    formatted,  \* codec: result of Display::fmt, or <<>> before it ran
    parsed,     \* codec: result of Geometry::from_str, or NoParse before it ran
    cstep,      \* codec: position of the codec run
    command,    \* the parsed command line: name, center flag, screenshot mode
    window,     \* compositor: the active window (present = FALSE: none)
    monitor,    \* compositor: the active monitor
    cursor,     \* compositor: the cursor position
    config,     \* compositor: the keywords overridden since the last reload
    submap,     \* compositor: the current submap
    pc,         \* position of the run in main.rs
    outcome,    \* "running", or how the process ended: "Ok", "Err", "Panic"
    log,        \* every external call of the run, in order
    x,          \* toggle_float: local x (clamped cursor x), in units
    y,          \* toggle_float: local y (clamped cursor y), in units
    output,     \* grab_region / grab_window: the selection tool's stdout
    result,     \* screenshot: local result, an Option<Geometry>
    has_result, \* screenshot: local has_result
    active_window, \* toggle_float / toggle_fullscreen: local active_window
    past,       \* the invocations that ended before this one, oldest first
    clients,    \* grab_window: the length of the candidate list, in bytes
    capacity,   \* the capacity of a pipe of the system, in bytes
    stdin,      \* grab_window: the pipe to the selection tool's stdin
    stdout,     \* grab_window: the pipe from the selection tool's stdout
    child,      \* grab_window: the selection tool
    thread,     \* grab_window: the thread that writes the candidate list
    other,      \* the locals of the concurrent invocation that is not running
    which       \* the invocation that is running: 1 or 2

codecVars == <<cinput, formatted, parsed, cstep>>

feedVars == <<clients, capacity, stdin, stdout, child, thread>>

raceVars == <<other, which>>

progVars == <<command, window, monitor, cursor, config, submap, pc, outcome,
              log, x, y, output, result, has_result, active_window, past,
              feedVars, raceVars>>

-----------------------------------------------------------------------------
(* Bounds of the model *)

\* largest number of whitespace-separated fields of a text given to from_str
MaxFields == 5

\* largest number of successive invocations of toggle-fullscreen
MaxInvocations == 2

\* largest length of the candidate list, in bytes
MaxList == 3

\* largest capacity of a pipe, in bytes
MaxPipe == 2

-----------------------------------------------------------------------------
(* Characters and decimal numbers, as the Rust standard library reads them *)

Digits == <<"0", "1", "2", "3", "4", "5", "6", "7", "8", "9">>

IsDigit(c) == \E i \in 1..10 : Digits[i] = c

DigitVal(c) == (CHOOSE i \in 1..10 : Digits[i] = c) - 1

\* char::is_whitespace, for the characters of the model
IsWhitespace(c) == c \in {" ", "\n", "\t"}

RECURSIVE FmtNat(_)
\* Display of an unsigned integer: decimal digits, no sign, no padding
FmtNat(n) ==
    IF n < 10 THEN <<Digits[n + 1]>>
    ELSE FmtNat(n \div 10) \o <<Digits[(n % 10) + 1]>>

RECURSIVE FmtNeg(_)
\* the decimal digits of -n for n <= 0, without negating n (i32::MIN has no
\* negation)
FmtNeg(n) ==
    LET d == (10 - (n % 10)) % 10
    IN  IF n > -10 THEN <<Digits[d + 1]>>
        ELSE FmtNeg((n + d) \div 10) \o <<Digits[d + 1]>>

\* Display of a signed integer
FmtInt(i) == IF i < 0 THEN <<"-">> \o FmtNeg(i) ELSE FmtNat(i)

RECURSIVE StripZeros(_)
StripZeros(ds) ==
    IF Len(ds) > 1 /\ Head(ds) = "0" THEN StripZeros(Tail(ds)) ELSE ds

RECURSIVE LexLeq(_, _)
\* a <= b for two digit strings of the same length
LexLeq(a, b) ==
    IF a = <<>> THEN TRUE
    ELSE IF DigitVal(Head(a)) < DigitVal(Head(b)) THEN TRUE
    ELSE IF DigitVal(Head(a)) > DigitVal(Head(b)) THEN FALSE
    ELSE LexLeq(Tail(a), Tail(b))

\* the number written by ds is at most the number written by lim
NumeralLeq(ds, lim) ==
    LET a == StripZeros(ds)
    IN  \/ Len(a) < Len(lim)
        \/ Len(a) = Len(lim) /\ LexLeq(a, lim)

RECURSIVE NumeralVal(_, _)
NumeralVal(ds, acc) ==
    IF ds = <<>> THEN acc
    ELSE NumeralVal(Tail(ds), acc * 10 + DigitVal(Head(ds)))

I32MaxDigits == <<"2", "1", "4", "7", "4", "8", "3", "6", "4", "7">>
I32MinDigits == <<"2", "1", "4", "7", "4", "8", "3", "6", "4", "8">>
U32MaxDigits == <<"4", "2", "9", "4", "9", "6", "7", "2", "9", "5">>

I32Max == 2147483647
I32Min == -I32Max - 1

NumErr == [ok |-> FALSE, val |-> 0]

\* str::parse::<i32>: optional sign, then at least one digit, only digits,
\* the value within the range of i32
parse_i32(tok) ==
    IF tok = <<>> THEN NumErr
    ELSE LET signed == Head(tok) \in {"+", "-"}
             neg    == Head(tok) = "-"
             ds     == IF signed THEN Tail(tok) ELSE tok
         IN  IF ds = <<>> \/ \E i \in 1..Len(ds) : ~IsDigit(ds[i]) THEN NumErr
             ELSE IF neg
                  THEN IF NumeralLeq(ds, I32MinDigits)
                       THEN [ok |-> TRUE, val |-> 0 - NumeralVal(ds, 0)]
                       ELSE NumErr
                  ELSE IF NumeralLeq(ds, I32MaxDigits)
                       THEN [ok |-> TRUE, val |-> NumeralVal(ds, 0)]
                       ELSE NumErr

\* str::parse::<u32>: an optional "+" only (a "-" is an invalid digit), then
\* at least one digit, only digits, the value within the range of u32
parse_u32(tok) ==
    IF tok = <<>> THEN NumErr
    ELSE LET ds == IF Head(tok) = "+" THEN Tail(tok) ELSE tok
         IN  IF ds = <<>> \/ \E i \in 1..Len(ds) : ~IsDigit(ds[i]) THEN NumErr
             ELSE IF NumeralLeq(ds, U32MaxDigits)
                  THEN [ok |-> TRUE, val |-> NumeralVal(ds, 0)]
                  ELSE NumErr

RECURSIVE SplitWs(_, _, _)
SplitWs(s, cur, acc) ==
    IF s = <<>> THEN (IF cur = <<>> THEN acc ELSE Append(acc, cur))
    ELSE IF IsWhitespace(Head(s))
         THEN SplitWs(Tail(s), <<>>, IF cur = <<>> THEN acc ELSE Append(acc, cur))
         ELSE SplitWs(Tail(s), Append(cur, Head(s)), acc)

\* str::split_whitespace: the maximal runs of non-whitespace characters
split_whitespace(s) == SplitWs(s, <<>>, <<>>)

-----------------------------------------------------------------------------
(* struct Geometry and its codec *)

Geometry(gx, gy, w, h) == [x |-> gx, y |-> gy, width |-> w, height |-> h]

NoGeometry == Geometry(0, 0, 0, 0)

\* Result<Geometry, ParseGeometryError>; index is meaningful for ParseArgument only
ParseOk(g)       == [tag |-> "Ok", index |-> 0, value |-> g]
WrongArgumentsCount == [tag |-> "WrongArgumentsCount", index |-> 0, value |-> NoGeometry]
ParseArgument(i) == [tag |-> "ParseArgument", index |-> i, value |-> NoGeometry]
NoParse          == [tag |-> "none", index |-> 0, value |-> NoGeometry]

\* mutant of from_str: the fields are read from the last to the first
from_strReversed(s) ==
    LET fields == split_whitespace(s)
    IN  IF Len(fields) # 4 THEN WrongArgumentsCount
        ELSE LET px == parse_i32(fields[1])
                 py == parse_i32(fields[2])
                 w  == parse_u32(fields[3])
                 h  == parse_u32(fields[4])
             IN  IF ~h.ok THEN ParseArgument(3)
                 ELSE IF ~w.ok THEN ParseArgument(2)
                 ELSE IF ~py.ok THEN ParseArgument(1)
                 ELSE IF ~px.ok THEN ParseArgument(0)
                 ELSE ParseOk(Geometry(px.val, py.val, w.val, h.val))

\* impl FromStr for Geometry
from_str(s) ==
    LET fields == split_whitespace(s)
    IN  IF Len(fields) # 4 THEN WrongArgumentsCount
        ELSE LET px == parse_i32(fields[1])
                 py == parse_i32(fields[2])
                 w  == parse_u32(fields[3])
                 h  == parse_u32(fields[4])
             IN  IF ~px.ok THEN ParseArgument(0)
                 ELSE IF ~py.ok THEN ParseArgument(1)
                 ELSE IF ~w.ok THEN ParseArgument(2)
                 ELSE IF ~h.ok THEN ParseArgument(3)
                 ELSE ParseOk(Geometry(px.val, py.val, w.val, h.val))

\* impl Display for Geometry: "{},{} {}x{}"
fmt(g) ==
    FmtInt(g.x) \o <<",">> \o FmtInt(g.y) \o <<" ">>
        \o FmtNat(g.width) \o <<"x">> \o FmtNat(g.height)

-----------------------------------------------------------------------------
(* The command line and the compositor's state *)

\* enum Command (NewTerminal is outside the model), enum ScreenshotMode
Commands ==
    { [name |-> "ToggleFloat", center |-> c, mode |-> "none"] : c \in BOOLEAN }
    \cup { [name |-> "ToggleFullscreen", center |-> FALSE, mode |-> "none"] }
    \cup { [name |-> "Screenshot", center |-> FALSE, mode |-> m] :
             m \in {"Region", "Window", "Display"} }

NoCommand == [name |-> "none", center |-> FALSE, mode |-> "none"]

\* Option<Client>: fullscreen is the FullscreenMode (0 = None)
NoWindow == [present |-> FALSE, floating |-> FALSE, fullscreen |-> 0,
             at |-> <<0, 0>>, size |-> <<0, 0>>]

Windows ==
    { NoWindow }
    \cup { [present |-> TRUE, floating |-> f, fullscreen |-> fs,
            at |-> <<10, 50>>, size |-> <<800, 600>>] :
             f \in BOOLEAN, fs \in {0, 2} }

\* Monitor: scale is num/den; reserved is the tuple monitor.reserved, whose
\* fields .0 .1 .2 .3 are reserved[1] .. reserved[4]
Monitors ==
    << [width |-> 1920, height |-> 1080, num |-> 1, den |-> 1,
        reserved |-> <<0, 0, 0, 0>>, x |-> 0, y |-> 0],
       [width |-> 2560, height |-> 1440, num |-> 2, den |-> 1,
        reserved |-> <<0, 40, 0, 0>>, x |-> 1920, y |-> 0],
       [width |-> 1366, height |-> 768, num |-> 1, den |-> 1,
        reserved |-> <<0, 0, 0, 30>>, x |-> 0, y |-> -768],
       [width |-> 1920, height |-> 1080, num |-> 1, den |-> 1,
        reserved |-> <<1000, 0, 0, 0>>, x |-> 0, y |-> 0],
       [width |-> 1366, height |-> 768, num |-> 4, den |-> 1,
        reserved |-> <<0, 0, 0, 0>>, x |-> -400, y |-> 0] >>

\* cursor positions inside [0, width) x [0, height) of the monitor m
Cursors(m) ==
    { [x |-> cx, y |-> cy] : cx \in {0, m.width \div 2, m.width - 1},
                             cy \in {0, m.height - 1} }

\* Option<Geometry>
None == [some |-> FALSE, value |-> NoGeometry]
Some(g) == [some |-> TRUE, value |-> g]

\* one external call of the run: a compositor query ("query"), a compositor
\* command ("dispatch", "keyword", "ctl"), a subprocess ("process") or the
\* notification ("notify"); ok = FALSE: the call returned an error
Entry(kind, name, text, arg, geom, ok) ==
    [kind |-> kind, name |-> name, text |-> text, arg |-> arg,
     geom |-> geom, ok |-> ok]

Query(name, ok) == Entry("query", name, "", <<>>, <<>>, ok)

Dispatch(name, text, arg, ok) == Entry("dispatch", name, text, arg, <<>>, ok)

-----------------------------------------------------------------------------
(* toggle_float: the geometry, in units of 1/Unit logical pixels *)

\* one logical pixel, in units: every f32 of toggle_float is a multiple of
\* 1/(4*scale)
Unit == 4 * monitor.num

\* let border = 4.0
border == 4

\* mutant of gaps: the same gap on every side
gapsUniform == <<20, 20, 20, 20>>

\* let gaps = (20.0, 10.0, 20.0, 20.0): gaps.0 .. gaps.3 are gaps[1] .. gaps[4]
gaps == <<20, 10, 20, 20>>

\* let width = monitor.width as f32 / scale
width == 4 * monitor.width * monitor.den

\* let height = monitor.height as f32 / scale
height == 4 * monitor.height * monitor.den

\* let reserved = (monitor.reserved.0 as f32, ...)
reserved == [i \in 1..4 |-> monitor.reserved[i] * Unit]

fmin(a, b) == IF b < a THEN b ELSE a

fmax(a, b) == IF b > a THEN b ELSE a

\* `v as i16` of an f32: truncation toward zero, saturating
as_i16(v) ==
    LET t == IF v >= 0 THEN v \div Unit ELSE 0 - ((0 - v) \div Unit)
    IN  IF t > 32767 THEN 32767 ELSE IF t < -32768 THEN -32768 ELSE t

\* mutant of ClampX: the upper clamp (.min) is missing
ClampXNoUpper(position) ==
    fmax(position.x * Unit,
         width \div 4 + gaps[1] * Unit + reserved[1] + border * Unit)

\* (position.x as f32).min(..).max(..)
ClampX(position) ==
    fmax(fmin(position.x * Unit,
              width - width \div 4 - gaps[3] * Unit - reserved[3] - border * Unit),
         width \div 4 + gaps[1] * Unit + reserved[1] + border * Unit)

\* (position.y as f32).min(..).max(..)
ClampY(position) ==
    fmax(fmin(position.y * Unit,
              height - height \div 4 - gaps[4] * Unit - reserved[4] - border * Unit),
         height \div 4 + gaps[2] * Unit + reserved[2] + border * Unit)

\* Position::Exact((width / 2.0) as i16, (height / 2.0) as i16)
ResizeTarget == <<as_i16(width \div 2), as_i16(height \div 2)>>

\* mutant of CenterMoveTarget: the cursor-anchored target in centering mode
CenterMoveTargetFromCursor ==
    <<as_i16(fmax(cursor.x * Unit, width \div 4) - width \div 4),
      as_i16(fmax(cursor.y * Unit, height \div 4) - height \div 4)>>

\* Position::Exact((width / 4.0) as i16, (height / 4.0) as i16)
CenterMoveTarget == <<as_i16(width \div 4), as_i16(height \div 4)>>

\* Position::Exact((x - width / 4.0) as i16, (y - height / 4.0) as i16)
CursorMoveTarget == <<as_i16(x - width \div 4), as_i16(y - height \div 4)>>

-----------------------------------------------------------------------------
(* Inputs of the codec *)

\* valid rectangles: signed x, y; unsigned width, height
CodecRects ==
    { Geometry(gx, gy, w, h) : gx \in {-12, 0, 7}, gy \in {-1, 0, 30},
                             w \in {0, 3, 100}, h \in {0, 2, 45} }

\* fields that read as an integer
TokPlain == <<"7">>
TokNeg   == <<"-", "1">>
TokPlus  == <<"+", "3">>
\* fields that do not read as an integer
TokX     == <<"x">>
TokComma == <<"1", ",", "2">>
TokWxH   == <<"3", "x", "4">>

Tokens == {TokPlain, TokNeg, TokPlus, TokX, TokComma, TokWxH}

Separators == { <<" ">>, <<"\n", " ">> }

RECURSIVE Join(_, _)
Join(fields, sep) ==
    IF fields = <<>> THEN <<>>
    ELSE IF Len(fields) = 1 THEN fields[1]
    ELSE fields[1] \o sep \o Join(Tail(fields), sep)

FieldSeqs == UNION { [1..n -> Tokens] : n \in 0..MaxFields }

\* no command runs while the codec is exercised on its own
\* no selection tool has been spawned
NoThread == [state |-> "none", written |-> 0]
NoChild == [state |-> "none", todo |-> <<>>]

FeedIdle ==
    /\ clients = 0
    /\ capacity = 1
    /\ stdin = [buffered |-> 0, ropen |-> FALSE, wopen |-> FALSE]
    /\ stdout = [buffered |-> <<>>, wopen |-> FALSE]
    /\ child = NoChild
    /\ thread = NoThread

\* the locals of an invocation
Invocation(p, o, l, out, r, h) ==
    [pc |-> p, outcome |-> o, log |-> l, output |-> out, result |-> r,
     has_result |-> h]

\* there is one invocation only
RaceIdle ==
    /\ other = Invocation("idle", "running", <<>>, <<>>, None, FALSE)
    /\ which = 1

ProgIdle ==
    /\ FeedIdle
    /\ RaceIdle
    /\ command = NoCommand
    /\ window = NoWindow
    /\ monitor = Monitors[1]
    /\ cursor = [x |-> 0, y |-> 0]
    /\ config = {}
    /\ submap = "default"
    /\ pc = "idle"
    /\ outcome = "running"
    /\ log = <<>>
    /\ x = 0
    /\ y = 0
    /\ output = <<>>
    /\ result = None
    /\ has_result = FALSE
    /\ active_window = NoWindow
    /\ past = <<>>

InitCodec ==
    /\ ProgIdle
    /\ \/ \E r \in CodecRects :
            cinput = [kind |-> "rect", rect |-> r, fields |-> <<>>, text |-> <<>>]
       \/ \E fs \in FieldSeqs, sep \in Separators :
            cinput = [kind |-> "text", rect |-> NoGeometry, fields |-> fs,
                      text |-> Join(fs, sep)]
    /\ formatted = <<>>
    /\ parsed = NoParse
    /\ cstep = "start"

\* geometry.to_string()
Format ==
    /\ cstep = "start"
    /\ cinput.kind = "rect"
    /\ formatted' = fmt(cinput.rect)
    /\ cstep' = "formatted"
    /\ UNCHANGED <<cinput, parsed>>
    /\ UNCHANGED progVars

\* text.parse::<Geometry>() of the text just formatted
ParseFormatted ==
    /\ cstep = "formatted"
    /\ parsed' = from_str(formatted)
    /\ cstep' = "parsed"
    /\ UNCHANGED <<cinput, formatted>>
    /\ UNCHANGED progVars

\* text.parse::<Geometry>() of a given text
ParseText ==
    /\ cstep = "start"
    /\ cinput.kind = "text"
    /\ parsed' = from_str(cinput.text)
    /\ cstep' = "parsed"
    /\ UNCHANGED <<cinput, formatted>>
    /\ UNCHANGED progVars

NextCodec == Format \/ ParseFormatted \/ ParseText

vars == <<codecVars, progVars>>

-----------------------------------------------------------------------------
(* The run of one command *)

restVars == <<command, monitor, cursor, codecVars, past, feedVars, raceVars>>

\* mutant of Compositor: the overrides and the submap are locked while the
\* other invocation is in its selection step
CompositorHoldsLock(e) ==
    /\ window' = window
    /\ config' =
         IF e.kind = "keyword" THEN config \cup {e.name}
         ELSE IF e.kind = "ctl"
              THEN (IF other.pc \in {"gw_workspace", "gw_clients", "gw_slurp"}
                    THEN config ELSE {})
         ELSE config
    /\ submap' =
         IF e.name = "Custom:submap"
         THEN (IF other.pc \in {"gw_workspace", "gw_clients", "gw_slurp"}
               THEN submap
               ELSE IF e.text = "reset" THEN "default" ELSE e.text)
         ELSE submap

\* what the compositor does with a command it accepted
Compositor(e) ==
    /\ window' =
         IF ~window.present THEN window
         ELSE IF e.name = "ToggleFloating"
              THEN [window EXCEPT !.floating = ~window.floating]
         ELSE IF e.name = "ResizeActive" THEN [window EXCEPT !.size = e.arg]
         ELSE IF e.name = "MoveActive" THEN [window EXCEPT !.at = e.arg]
         ELSE IF e.name = "Custom:fullscreenstate"
              THEN [window EXCEPT !.fullscreen = e.arg[1]]
         ELSE window
    /\ config' =
         IF e.kind = "keyword" THEN config \cup {e.name}
         ELSE IF e.kind = "ctl" THEN {}
         ELSE config
    /\ submap' =
         IF e.name = "Custom:submap"
         THEN (IF e.text = "reset" THEN "default" ELSE e.text)
         ELSE submap

\* mutant of Call: the error of the call is dropped and the run goes on
CallIgnoresError(e, next) ==
    \/ /\ log' = Append(log, [e EXCEPT !.ok = FALSE])
       /\ pc' = next
       /\ outcome' = IF next = "done" THEN "Ok" ELSE outcome
       /\ UNCHANGED <<window, config, submap>>
    \/ /\ log' = Append(log, e)
       /\ pc' = next
       /\ outcome' = IF next = "done" THEN "Ok" ELSE outcome
       /\ Compositor(e)

\* a fallible compositor call followed by `?`: an error ends the run with Err,
\* success continues at next (next = "done": the function returns Ok(()))
Call(e, next) ==
    \/ /\ log' = Append(log, [e EXCEPT !.ok = FALSE])
       /\ pc' = "done"
       /\ outcome' = "Err"
       /\ UNCHANGED <<window, config, submap>>
    \/ /\ log' = Append(log, e)
       /\ pc' = next
       /\ outcome' = IF next = "done" THEN "Ok" ELSE outcome
       /\ Compositor(e)

\* fn main: match command
Main ==
    /\ pc = "main"
    /\ pc' = IF command.name = "ToggleFloat" THEN "tf_get_active"
             ELSE IF command.name = "ToggleFullscreen" THEN "fs_get_active"
             ELSE "ss_start"
    /\ UNCHANGED <<window, config, submap, outcome, log, x, y, output, result,
                   has_result, active_window, restVars>>

\* mutant of tf_branch: the floating state is not looked at
tf_branchIgnoresFloating(floating, center) ==
    IF center THEN "tf_center_toggle" ELSE "tf_cursor"

\* toggle_float: if active_window.floating {..} else if center {..} else {..}
tf_branch(floating, center) ==
    IF floating THEN "tf_toggle"
    ELSE IF center THEN "tf_center_toggle"
    ELSE "tf_cursor"

\* mutant of TfGetActive: the None arm does not return
TfGetActiveNoReturn ==
    /\ pc = "tf_get_active"
    /\ \/ /\ log' = Append(log, Query("Client::get_active", FALSE))
          /\ pc' = "done"
          /\ outcome' = "Err"
          /\ UNCHANGED active_window
       \/ /\ log' = Append(log, Query("Client::get_active", TRUE))
          /\ pc' = "tf_get_monitor"
          /\ outcome' = outcome
          /\ active_window' = window
    /\ UNCHANGED <<window, config, submap, x, y, output, result, has_result,
                   restVars>>

\* toggle_float: let active_window = match Client::get_active()? {..}
TfGetActive ==
    /\ pc = "tf_get_active"
    /\ \/ /\ log' = Append(log, Query("Client::get_active", FALSE))
          /\ pc' = "done"
          /\ outcome' = "Err"
          /\ UNCHANGED active_window
       \/ /\ log' = Append(log, Query("Client::get_active", TRUE))
          /\ pc' = IF window.present THEN "tf_get_monitor" ELSE "done"
          /\ outcome' = IF window.present THEN outcome ELSE "Ok"
          /\ active_window' = window
    /\ UNCHANGED <<window, config, submap, x, y, output, result, has_result,
                   restVars>>

\* toggle_float: let monitor = Monitor::get_active()?; then the branch
TfGetMonitor ==
    /\ pc = "tf_get_monitor"
    /\ \/ /\ log' = Append(log, Query("Monitor::get_active", FALSE))
          /\ pc' = "done"
          /\ outcome' = "Err"
       \/ /\ log' = Append(log, Query("Monitor::get_active", TRUE))
          /\ pc' = tf_branch(active_window.floating, command.center)
          /\ outcome' = outcome
    /\ UNCHANGED <<window, config, submap, x, y, output, result, has_result,
                   active_window, restVars>>

\* toggle_float, floating window: Dispatch::call(ToggleFloating(None))?
TfToggle ==
    /\ pc = "tf_toggle"
    /\ Call(Dispatch("ToggleFloating", "", <<>>, TRUE), "done")
    /\ UNCHANGED <<x, y, output, result, has_result, active_window, restVars>>

\* toggle_float, center: dispatch!(ToggleFloating, None)?
TfCenterToggle ==
    /\ pc = "tf_center_toggle"
    /\ Call(Dispatch("ToggleFloating", "", <<>>, TRUE), "tf_center_resize")
    /\ UNCHANGED <<x, y, output, result, has_result, active_window, restVars>>

\* toggle_float, center: dispatch!(ResizeActive, ..)?
TfCenterResize ==
    /\ pc = "tf_center_resize"
    /\ Call(Dispatch("ResizeActive", "", ResizeTarget, TRUE), "tf_center_move")
    /\ UNCHANGED <<x, y, output, result, has_result, active_window, restVars>>

\* toggle_float, center: dispatch!(MoveActive, ..)?; Ok(())
TfCenterMove ==
    /\ pc = "tf_center_move"
    /\ Call(Dispatch("MoveActive", "", CenterMoveTarget, TRUE), "done")
    /\ UNCHANGED <<x, y, output, result, has_result, active_window, restVars>>

\* toggle_float, cursor: let position = CursorPosition::get()?; let x; let y
TfCursor ==
    /\ pc = "tf_cursor"
    /\ \/ /\ log' = Append(log, Query("CursorPosition::get", FALSE))
          /\ pc' = "done"
          /\ outcome' = "Err"
          /\ UNCHANGED <<x, y>>
       \/ /\ log' = Append(log, Query("CursorPosition::get", TRUE))
          /\ pc' = "tf_cursor_toggle"
          /\ outcome' = outcome
          /\ x' = ClampX(cursor)
          /\ y' = ClampY(cursor)
    /\ UNCHANGED <<window, config, submap, output, result, has_result, active_window, restVars>>

\* mutant of TfCursorToggle: the resize that follows is left out
TfCursorToggleSkipsResize ==
    /\ pc = "tf_cursor_toggle"
    /\ Call(Dispatch("ToggleFloating", "", <<>>, TRUE), "tf_cursor_move")
    /\ UNCHANGED <<x, y, output, result, has_result, active_window, restVars>>

\* toggle_float, cursor: dispatch!(ToggleFloating, None)?
TfCursorToggle ==
    /\ pc = "tf_cursor_toggle"
    /\ Call(Dispatch("ToggleFloating", "", <<>>, TRUE), "tf_cursor_resize")
    /\ UNCHANGED <<x, y, output, result, has_result, active_window, restVars>>

\* toggle_float, cursor: dispatch!(ResizeActive, ..)?
TfCursorResize ==
    /\ pc = "tf_cursor_resize"
    /\ Call(Dispatch("ResizeActive", "", ResizeTarget, TRUE), "tf_cursor_move")
    /\ UNCHANGED <<x, y, output, result, has_result, active_window, restVars>>

\* toggle_float, cursor: dispatch!(MoveActive, ..)?; Ok(())
TfCursorMove ==
    /\ pc = "tf_cursor_move"
    /\ Call(Dispatch("MoveActive", "", CursorMoveTarget, TRUE), "done")
    /\ UNCHANGED <<x, y, output, result, has_result, active_window, restVars>>

\* toggle_fullscreen: let active_window = match Client::get_active()? {..}
FsGetActive ==
    /\ pc = "fs_get_active"
    /\ \/ /\ log' = Append(log, Query("Client::get_active", FALSE))
          /\ pc' = "done"
          /\ outcome' = "Err"
          /\ UNCHANGED active_window
       \/ /\ log' = Append(log, Query("Client::get_active", TRUE))
          /\ pc' = IF window.present THEN "fs_dispatch" ELSE "done"
          /\ outcome' = IF window.present THEN outcome ELSE "Ok"
          /\ active_window' = window
    /\ UNCHANGED <<window, config, submap, x, y, output, result, has_result,
                   restVars>>

\* mutant of fullscreenstate: state 3 whatever the window's state
fullscreenstateAlways3(fullscreen) == <<3, -1>>

\* toggle_fullscreen: format!("{} -1", if fullscreen == None { 3 } else { 0 })
fullscreenstate(fullscreen) == <<IF fullscreen = 0 THEN 3 ELSE 0, -1>>

\* toggle_fullscreen: dispatch!(Custom, "fullscreenstate", ..)?; Ok(())
FsDispatch ==
    /\ pc = "fs_dispatch"
    /\ Call(Dispatch("Custom:fullscreenstate", "",
                     fullscreenstate(active_window.fullscreen), TRUE), "done")
    /\ UNCHANGED <<x, y, output, result, has_result, active_window, restVars>>

-----------------------------------------------------------------------------
(* screenshot *)

\* the selection tool's output for its format "%x %y %w %h"
SlurpFmt(g) ==
    FmtInt(g.x) \o <<" ">> \o FmtInt(g.y) \o <<" ">>
        \o FmtNat(g.width) \o <<" ">> \o FmtNat(g.height)

\* a text the selection tool does not emit for "%x %y %w %h"
Garbage == <<"1", ",", "2", " ", "3", "x", "4">>

\* what the user may select in freeform mode
RegionRects ==
    { Geometry(100, 200, 300, 400), Geometry(-10, 0, 50, 50),
      Geometry(0, 0, 3, 3), Geometry(5, 5, 2, 10), Geometry(5, 5, 10, 1),
      Geometry(I32Max, 0, 10, 10) }

\* Workspace::get_active(): the id of the active workspace
ActiveWorkspace == 1

\* Clients::get(): the windows of the compositor
ClientList ==
    << [at |-> <<0, 0>>, size |-> <<960, 1080>>, workspace |-> 1],
       [at |-> <<960, 40>>, size |-> <<1, 1>>, workspace |-> 1],
       [at |-> <<-100, 20>>, size |-> <<640, 480>>, workspace |-> 2] >>

\* .filter(|x| x.workspace.id == workspace.id): the snapping targets
Candidates ==
    { Geometry(ClientList[i].at[1], ClientList[i].at[2],
               ClientList[i].size[1], ClientList[i].size[2]) :
        i \in { j \in 1..Len(ClientList) :
                  ClientList[j].workspace = ActiveWorkspace } }

\* the texts the selection tool may write to its stdout (<<>>: cancelled)
SlurpOutputs(mode) ==
    { <<>>, Garbage }
    \cup { SlurpFmt(g) : g \in IF mode = "Window" THEN Candidates
                               ELSE RegionRects }

\* the ways a subprocess that was spawned and waited for may exit
ExitStatus == {0, 1}

Process(name, geom, status, ok) ==
    Entry("process", name, "", <<status>>, geom, ok)

\* Keyword::set(key, value)? of screenshot, in order
Overrides ==
    << [key |-> "general:col.inactive_border", value |-> "0xFFFFFFFF"],
       [key |-> "general:col.active_border", value |-> "0xFFFFFFFF"],
       [key |-> "decoration:rounding", value |-> "0"],
       [key |-> "decoration:dim_inactive", value |-> "0"],
       [key |-> "decoration:inactive_opacity", value |-> "1"] >>

\* the position before the i-th Keyword::set
KeywordLabel(i) ==
    <<"ss_keyword1", "ss_keyword2", "ss_keyword3", "ss_keyword4",
      "ss_keyword5">>[i]

\* the outcome of a function that may panic or return an Option<Geometry>
Panicked == [panic |-> TRUE, opt |-> None]
Returned(o) == [panic |-> FALSE, opt |-> o]

\* mutant of KeepRegion: >= in place of >
KeepRegionFrom2(region) == region.width >= 2 /\ region.height >= 2

\* grab_region: if region.width > 2 && region.height > 2
KeepRegion(region) == region.width > 2 /\ region.height > 2

\* v + 1 on i32, as the builds compute it: past i32::MAX the addition panics
\* where overflow checks are compiled in (the dev profile) and wraps to
\* i32::MIN where they are not (the release profile)
add1_i32(v) ==
    IF v < I32Max THEN { [panic |-> FALSE, val |-> v + 1] }
    ELSE { [panic |-> TRUE, val |-> 0], [panic |-> FALSE, val |-> I32Min] }

\* grab_region, from the selection tool's stdout on: the outcomes the builds
\* can produce
grab_region(out) ==
    IF out = <<>> THEN { Returned(None) }
    ELSE LET region == from_str(out)
         IN  IF region.tag # "Ok" THEN { Panicked }
             ELSE IF KeepRegion(region.value)
                  THEN { IF ax.panic \/ ay.panic THEN Panicked
                         ELSE Returned(Some(Geometry(ax.val, ay.val,
                                                     region.value.width - 2,
                                                     region.value.height - 2))) :
                           ax \in add1_i32(region.value.x),
                           ay \in add1_i32(region.value.y) }
                  ELSE { Returned(None) }

\* grab_window, from the selection tool's stdout on
grab_window(out) ==
    IF out = <<>> THEN Returned(None)
    ELSE LET region == from_str(out)
         IN  IF region.tag # "Ok" THEN Panicked
             ELSE Returned(Some(region.value))

\* mutant of RoundScaled: truncation in place of .round()
RoundScaledTrunc(v) == (v * monitor.den) \div monitor.num

\* (f32::from(v) / monitor.scale).round() as u32
RoundScaled(v) == (2 * v * monitor.den + monitor.num) \div (2 * monitor.num)

\* grab_display, after the monitor query
grab_display ==
    Some(Geometry(monitor.x, monitor.y, RoundScaled(monitor.width),
                  RoundScaled(monitor.height)))

\* mutant of selector: window mode selects without the overrides
selectorNoOverride(mode) ==
    IF mode = "Window" THEN "gw_workspace"
    ELSE IF mode = "Region" THEN "gr_slurp"
    ELSE "gd_monitor"

\* screenshot: where the run goes first, by mode
selector(mode) ==
    IF mode = "Window" THEN KeywordLabel(1)
    ELSE IF mode = "Region" THEN "gr_slurp"
    ELSE "gd_monitor"

\* mutant of after_revert: the notification does not depend on has_result
after_revertAlways(has) == "ss_notify"

\* screenshot: if has_result { notification }; Ok(())
after_revert(has) == IF has THEN "ss_notify" ELSE "done"

\* mutant of after_capture: the revert runs in every mode
after_captureAlways(mode, has) == "ss_reload"

\* mutant of after_capture: the revert runs only after a capture
after_captureOnlyWithResult(mode, has) ==
    IF mode = "Window" /\ has THEN "ss_reload" ELSE after_revert(has)

\* screenshot: if mode == ScreenshotMode::Window { reload; submap reset }
after_capture(mode, has) ==
    IF mode = "Window" THEN "ss_reload" ELSE after_revert(has)

\* a step that leaves the compositor alone and either panics or goes on
Panic(e) ==
    /\ log' = Append(log, [e EXCEPT !.ok = FALSE])
    /\ pc' = "done"
    /\ outcome' = "Panic"

Continue(e, next) ==
    /\ log' = Append(log, e)
    /\ pc' = next
    /\ outcome' = IF next = "done" THEN "Ok" ELSE outcome

\* screenshot: file name, home directory, create_dir_all(..).unwrap()
SsStart ==
    /\ pc = "ss_start"
    /\ \/ Panic(Entry("fs", "create_dir_all", "", <<>>, <<>>, TRUE))
       \/ Continue(Entry("fs", "create_dir_all", "", <<>>, <<>>, TRUE),
                   selector(command.mode))
    /\ UNCHANGED <<window, config, submap, x, y, output, result, has_result,
                   active_window, restVars>>

\* screenshot, window mode: the i-th Keyword::set(..)?
SsKeyword(i) ==
    /\ pc = KeywordLabel(i)
    /\ Call(Entry("keyword", Overrides[i].key, Overrides[i].value, <<>>, <<>>,
                  TRUE),
            IF i < Len(Overrides) THEN KeywordLabel(i + 1) ELSE "ss_submap")
    /\ UNCHANGED <<x, y, output, result, has_result, active_window, restVars>>

\* screenshot, window mode: dispatch!(Custom, "submap", "empty")?
SsSubmapEmpty ==
    /\ pc = "ss_submap"
    /\ Call(Dispatch("Custom:submap", "empty", <<>>, TRUE), "gw_workspace")
    /\ UNCHANGED <<x, y, output, result, has_result, active_window, restVars>>

\* grab_window: let workspace = Workspace::get_active()?
GwWorkspace ==
    /\ pc = "gw_workspace"
    /\ Call(Query("Workspace::get_active", TRUE), "gw_clients")
    /\ UNCHANGED <<x, y, output, result, has_result, active_window, restVars>>

\* grab_window: let clients = Clients::get()?...join("\n")
GwClients ==
    /\ pc = "gw_clients"
    /\ Call(Query("Clients::get", TRUE), "gw_slurp")
    /\ UNCHANGED <<x, y, output, result, has_result, active_window, restVars>>

\* grab_window: spawn the selection tool, feed it the candidates from a
\* thread, wait_with_output().expect(..).stdout
GwSlurp ==
    /\ pc = "gw_slurp"
    /\ \/ /\ Panic(Process("slurp", <<>>, 0, TRUE))
          /\ UNCHANGED output
       \/ \E out \in SlurpOutputs("Window") :
            /\ Continue(Process("slurp", out, 0, TRUE), "gw_parse")
            /\ output' = out
    /\ UNCHANGED <<window, config, submap, x, y, result, has_result, active_window, restVars>>

\* grab_window: if output.is_empty() { Ok(None) } else { parse().unwrap() }
GwParse ==
    /\ pc = "gw_parse"
    /\ LET r == grab_window(output)
       IN  IF r.panic
           THEN /\ pc' = "done"
                /\ outcome' = "Panic"
                /\ UNCHANGED result
           ELSE /\ pc' = "ss_has_result"
                /\ outcome' = outcome
                /\ result' = r.opt
    /\ UNCHANGED <<window, config, submap, log, x, y, output, has_result,
                   active_window, restVars>>

\* grab_region: Command::new("slurp")...output().unwrap().stdout
GrSlurp ==
    /\ pc = "gr_slurp"
    /\ \/ /\ Panic(Process("slurp", <<>>, 0, TRUE))
          /\ UNCHANGED output
       \/ \E out \in SlurpOutputs("Region") :
            /\ Continue(Process("slurp", out, 0, TRUE), "gr_parse")
            /\ output' = out
    /\ UNCHANGED <<window, config, submap, x, y, result, has_result, active_window, restVars>>

\* grab_region: empty output, parse().unwrap(), the size filter
GrParse ==
    /\ pc = "gr_parse"
    /\ \E r \in grab_region(output) :
           IF r.panic
           THEN /\ pc' = "done"
                /\ outcome' = "Panic"
                /\ UNCHANGED result
           ELSE /\ pc' = "ss_has_result"
                /\ outcome' = outcome
                /\ result' = r.opt
    /\ UNCHANGED <<window, config, submap, log, x, y, output, has_result,
                   active_window, restVars>>

\* grab_display: Monitor::get_active()?; Ok(Some(data))
GdMonitor ==
    /\ pc = "gd_monitor"
    /\ \/ /\ log' = Append(log, Query("Monitor::get_active", FALSE))
          /\ pc' = "done"
          /\ outcome' = "Err"
          /\ UNCHANGED result
       \/ /\ log' = Append(log, Query("Monitor::get_active", TRUE))
          /\ pc' = "ss_has_result"
          /\ outcome' = outcome
          /\ result' = grab_display
    /\ UNCHANGED <<window, config, submap, x, y, output, has_result, active_window, restVars>>

\* screenshot: let has_result = result.is_some(); if let Some(result) = result
SsHasResult ==
    /\ pc = "ss_has_result"
    /\ has_result' = result.some
    /\ pc' = IF result.some THEN "sg_grim"
             ELSE after_capture(command.mode, result.some)
    /\ outcome' = IF pc' = "done" THEN "Ok" ELSE outcome
    /\ UNCHANGED <<window, config, submap, log, x, y, output, result,
                   active_window, restVars>>

\* save_geometry: grim -g <geometry> <path>: spawn().unwrap().wait().unwrap()
SgGrim ==
    /\ pc = "sg_grim"
    /\ \/ Panic(Process("grim", fmt(result.value), 0, TRUE))
       \/ \E st \in ExitStatus :
            Continue(Process("grim", fmt(result.value), st, TRUE), "sg_wlcopy")
    /\ UNCHANGED <<window, config, submap, x, y, output, result, has_result,
                   active_window, restVars>>

\* save_geometry: sh -c "wl-copy ..": spawn().unwrap().wait().unwrap()
SgWlCopy ==
    /\ pc = "sg_wlcopy"
    /\ \/ Panic(Process("wl-copy", <<>>, 0, TRUE))
       \/ \E st \in ExitStatus :
            Continue(Process("wl-copy", <<>>, st, TRUE),
                     after_capture(command.mode, has_result))
    /\ UNCHANGED <<window, config, submap, x, y, output, result, has_result,
                   active_window, restVars>>

\* screenshot, window mode: hyprland::ctl::reload::call()?
SsReload ==
    /\ pc = "ss_reload"
    /\ Call(Entry("ctl", "reload", "", <<>>, <<>>, TRUE), "ss_submap_reset")
    /\ UNCHANGED <<x, y, output, result, has_result, active_window, restVars>>

\* screenshot, window mode: dispatch!(Custom, "submap", "reset")?
SsSubmapReset ==
    /\ pc = "ss_submap_reset"
    /\ Call(Dispatch("Custom:submap", "reset", <<>>, TRUE),
            after_revert(has_result))
    /\ UNCHANGED <<x, y, output, result, has_result, active_window, restVars>>

\* screenshot: Notification::new()...show().unwrap()
SsNotify ==
    /\ pc = "ss_notify"
    /\ \/ Panic(Entry("notify", "show", "", <<>>, <<>>, TRUE))
       \/ Continue(Entry("notify", "show", "", <<>>, <<>>, TRUE),
                   "ss_wait_action")
    /\ UNCHANGED <<window, config, submap, x, y, output, result, has_result,
                   active_window, restVars>>

\* the action the notification reports ("dismiss": none of the named ones)
Actions == {"show", "open", "edit", "dismiss"}

\* screenshot: wait_for_action(|action| ..that_detached(..).unwrap()); Ok(())
SsWaitAction ==
    /\ pc = "ss_wait_action"
    /\ \E action \in Actions :
         IF action = "dismiss"
         THEN /\ pc' = "done"
              /\ outcome' = "Ok"
              /\ UNCHANGED log
         ELSE \/ Panic(Process("open", <<>>, 0, TRUE))
              \/ Continue(Entry("process", "open", action, <<0>>, <<>>, TRUE),
                          "done")
    /\ UNCHANGED <<window, config, submap, x, y, output, result, has_result,
                   active_window, restVars>>

CodecIdle ==
    /\ cinput = [kind |-> "none", rect |-> NoGeometry, fields |-> <<>>,
                 text |-> <<>>]
    /\ formatted = <<>>
    /\ parsed = NoParse
    /\ cstep = "idle"

Init ==
    /\ CodecIdle
    /\ FeedIdle
    /\ RaceIdle
    /\ command \in Commands
    /\ window \in Windows
    /\ \E i \in 1..Len(Monitors) : monitor = Monitors[i]
    /\ cursor \in Cursors(monitor)
    /\ config = {}
    /\ submap = "default"
    /\ pc = "main"
    /\ outcome = "running"
    /\ log = <<>>
    /\ x = 0
    /\ y = 0
    /\ output = <<>>
    /\ result = None
    /\ has_result = FALSE
    /\ active_window = NoWindow
    /\ past = <<>>

\* the process has ended and toggle-fullscreen is invoked once more, on the
\* compositor as the earlier invocation left it
InvokeAgain ==
    /\ pc = "done"
    /\ command.name = "ToggleFullscreen"
    /\ Len(past) + 1 < MaxInvocations
    /\ past' = Append(past, [active_window |-> active_window, log |-> log,
                             outcome |-> outcome])
    /\ pc' = "main"
    /\ outcome' = "running"
    /\ log' = <<>>
    /\ active_window' = NoWindow
    /\ UNCHANGED <<window, config, submap, x, y, output, result, has_result,
                   command, monitor, cursor, codecVars, feedVars, raceVars>>

Next ==
    \/ Main
    \/ TfGetActive \/ TfGetMonitor \/ TfToggle
    \/ TfCenterToggle \/ TfCenterResize \/ TfCenterMove
    \/ TfCursor \/ TfCursorToggle \/ TfCursorResize \/ TfCursorMove
    \/ FsGetActive \/ FsDispatch
    \/ SsStart \/ (\E i \in 1..Len(Overrides) : SsKeyword(i)) \/ SsSubmapEmpty
    \/ GwWorkspace \/ GwClients \/ GwSlurp \/ GwParse
    \/ GrSlurp \/ GrParse \/ GdMonitor
    \/ SsHasResult \/ SgGrim \/ SgWlCopy
    \/ SsReload \/ SsSubmapReset \/ SsNotify \/ SsWaitAction
    \/ InvokeAgain

Spec == Init /\ [][Next]_vars

-----------------------------------------------------------------------------
(* grab_window, from the spawn of the selection tool to the return of      *)
(* wait_with_output: the main flow, the writer thread and the tool         *)

Min(a, b) == IF a < b THEN a ELSE b

\* the five keys of Overrides
OverrideKeys == { Overrides[i].key : i \in 1..Len(Overrides) }

\* after Command::new("slurp")...stdin(piped).stdout(piped).spawn().unwrap():
\* the tool runs, both pipes are open and empty; the tool will write any
\* part of one of its texts
InitFeed ==
    /\ CodecIdle
    /\ RaceIdle
    /\ command = [name |-> "Screenshot", center |-> FALSE, mode |-> "Window"]
    /\ window = NoWindow
    /\ monitor = Monitors[1]
    /\ cursor = [x |-> 0, y |-> 0]
    /\ config = OverrideKeys
    /\ submap = "empty"
    /\ pc = "gw_feed"
    /\ outcome = "running"
    /\ log = <<>>
    /\ x = 0
    /\ y = 0
    /\ output = <<>>
    /\ result = None
    /\ has_result = FALSE
    /\ active_window = NoWindow
    /\ past = <<>>
    /\ clients \in 0..MaxList
    /\ capacity \in 1..MaxPipe
    /\ stdin = [buffered |-> 0, ropen |-> TRUE, wopen |-> TRUE]
    /\ stdout = [buffered |-> <<>>, wopen |-> TRUE]
    /\ \E t \in SlurpOutputs("Window") : child = [state |-> "running", todo |-> t]
    /\ thread = NoThread

\* what the steps of the feed leave alone
feedRest == <<window, config, submap, outcome, log, x, y, result, has_result,
              active_window, command, monitor, cursor, codecVars, past,
              raceVars, clients, capacity>>

\* main: child.stdin.take(); std::thread::spawn(move || ..): the handle is
\* dropped, the thread is detached
FeedSpawn ==
    /\ pc = "gw_feed"
    /\ pc' = "gw_wait"
    /\ thread' = [state |-> "writing", written |-> 0]
    /\ UNCHANGED <<stdin, stdout, child, output, feedRest>>

\* thread: stdin.write_all(clients.as_bytes()).expect(..), one write(2):
\* some bytes go into the pipe if it has room, the write blocks while the
\* pipe is full, and fails (EPIPE) once the tool's end is closed: the thread
\* panics and stdin is dropped
ThreadWrite ==
    /\ thread.state = "writing"
    /\ thread.written < clients
    /\ IF ~stdin.ropen
       THEN /\ thread' = [thread EXCEPT !.state = "panicked"]
            /\ stdin' = [stdin EXCEPT !.wopen = FALSE]
       ELSE \E k \in 1..Min(clients - thread.written,
                            capacity - stdin.buffered) :
              /\ thread' = [thread EXCEPT !.written = @ + k]
              /\ stdin' = [stdin EXCEPT !.buffered = @ + k]
    /\ UNCHANGED <<pc, stdout, child, output, feedRest>>

\* thread: write_all returned Ok, the closure ends and stdin is dropped
ThreadDone ==
    /\ thread.state = "writing"
    /\ thread.written = clients
    /\ thread' = [thread EXCEPT !.state = "finished"]
    /\ stdin' = [stdin EXCEPT !.wopen = FALSE]
    /\ UNCHANGED <<pc, stdout, child, output, feedRest>>

\* the tool reads some of the bytes waiting on its stdin
ChildRead ==
    /\ child.state = "running"
    /\ \E k \in 1..stdin.buffered : stdin' = [stdin EXCEPT !.buffered = @ - k]
    /\ UNCHANGED <<pc, thread, stdout, child, output, feedRest>>

\* the tool writes some of its text to its stdout, if the pipe has room
ChildWrite ==
    /\ child.state = "running"
    /\ \E k \in 1..Min(Len(child.todo), capacity - Len(stdout.buffered)) :
         /\ stdout' = [stdout EXCEPT
                         !.buffered = @ \o SubSeq(child.todo, 1, k)]
         /\ child' = [child EXCEPT
                        !.todo = SubSeq(@, k + 1, Len(@))]
    /\ UNCHANGED <<pc, thread, stdin, output, feedRest>>

\* the tool terminates, whatever it has read or written: its ends of both
\* pipes are closed, the unread input is gone
ChildExit ==
    /\ child.state = "running"
    /\ child' = [child EXCEPT !.state = "exited"]
    /\ stdin' = [stdin EXCEPT !.ropen = FALSE, !.buffered = 0]
    /\ stdout' = [stdout EXCEPT !.wopen = FALSE]
    /\ UNCHANGED <<pc, thread, output, feedRest>>

\* main, in wait_with_output: read what is waiting on the tool's stdout
MainRead ==
    /\ pc = "gw_wait"
    /\ stdout.buffered # <<>>
    /\ output' = output \o stdout.buffered
    /\ stdout' = [stdout EXCEPT !.buffered = <<>>]
    /\ UNCHANGED <<pc, thread, stdin, child, feedRest>>

\* mutant of wait_ready: the main flow joins the writer thread first
wait_readyJoinsWriter ==
    /\ stdout.buffered = <<>>
    /\ ~stdout.wopen
    /\ child.state = "exited"
    /\ thread.state \in {"finished", "panicked"}

\* wait_with_output returns: stdout was read to its end and the tool has
\* been waited for
wait_ready ==
    /\ stdout.buffered = <<>>
    /\ ~stdout.wopen
    /\ child.state = "exited"

\* main: let output = child.wait_with_output().expect(..).stdout
MainWait ==
    /\ pc = "gw_wait"
    /\ wait_ready
    /\ pc' = "gw_parse"
    /\ UNCHANGED <<thread, stdin, stdout, child, output, feedRest>>

\* the steps of the main flow
MainFeed == FeedSpawn \/ MainRead \/ MainWait

NextFeed ==
    \/ FeedSpawn \/ MainRead \/ MainWait
    \/ ThreadWrite \/ ThreadDone
    \/ ChildRead \/ ChildWrite \/ ChildExit

\* the main flow keeps running; nothing is assumed about how fast the writer
\* thread or the tool run
SpecFeed == InitFeed /\ [][NextFeed]_vars /\ WF_vars(MainFeed)

-----------------------------------------------------------------------------
(* Two window-mode screenshots run at once against one compositor *)

\* the scheduler suspends the running invocation and resumes the other one,
\* unless that one has ended
Switch ==
    /\ other.pc # "done"
    /\ which' = 3 - which
    /\ other' = Invocation(pc, outcome, log, output, result, has_result)
    /\ pc' = other.pc
    /\ outcome' = other.outcome
    /\ log' = other.log
    /\ output' = other.output
    /\ result' = other.result
    /\ has_result' = other.has_result
    /\ UNCHANGED <<window, config, submap, x, y, active_window, command,
                   monitor, cursor, codecVars, past, feedVars>>

InitRace ==
    /\ CodecIdle
    /\ FeedIdle
    /\ command = [name |-> "Screenshot", center |-> FALSE, mode |-> "Window"]
    /\ window = NoWindow
    /\ monitor = Monitors[1]
    /\ cursor = [x |-> 0, y |-> 0]
    /\ config = {}
    /\ submap = "default"
    /\ pc = "main"
    /\ outcome = "running"
    /\ log = <<>>
    /\ x = 0
    /\ y = 0
    /\ output = <<>>
    /\ result = None
    /\ has_result = FALSE
    /\ active_window = NoWindow
    /\ past = <<>>
    /\ other = Invocation("main", "running", <<>>, <<>>, None, FALSE)
    /\ which = 1

NextRace ==
    \/ Main
    \/ SsStart \/ (\E i \in 1..Len(Overrides) : SsKeyword(i)) \/ SsSubmapEmpty
    \/ GwWorkspace \/ GwClients \/ GwSlurp \/ GwParse
    \/ SsHasResult \/ SgGrim \/ SgWlCopy
    \/ SsReload \/ SsSubmapReset \/ SsNotify \/ SsWaitAction
    \/ Switch

SpecRace == InitRace /\ [][NextRace]_vars

-----------------------------------------------------------------------------
(* Reading the log *)

Names(l) == [i \in 1..Len(l) |-> l[i].name]

IsDispatch(e) == e.kind = "dispatch"

\* the compositor commands of the run, in order
DispatchNames == Names(SelectSeq(log, IsDispatch))

Issued(name) == \E i \in 1..Len(log) : log[i].name = name

Succeeded(name) == \E i \in 1..Len(log) : log[i].name = name /\ log[i].ok

Count(name) == Cardinality({ i \in 1..Len(log) : log[i].name = name })

\* no external call of the run returned an error or panicked
AllOk == \A i \in 1..Len(log) : log[i].ok

IsPrefix(s, t) == Len(s) <= Len(t) /\ \A i \in 1..Len(s) : s[i] = t[i]

\* the active window was floating when the run started: every accepted
\* toggle-floating flips it
WasFloating ==
    LET flips == Cardinality({ i \in 1..Len(log) :
                                 log[i].name = "ToggleFloating" /\ log[i].ok })
    IN  IF flips % 2 = 0 THEN window.floating ELSE ~window.floating

ToggleFloatOn(floating) ==
    /\ command.name = "ToggleFloat"
    /\ window.present
    /\ WasFloating = floating

ScreenshotIn(mode) == command.name = "Screenshot" /\ command.mode = mode

\* the selection tool ran and wrote nothing
Cancelled ==
    \E i \in 1..Len(log) :
        log[i].name = "slurp" /\ log[i].ok /\ log[i].geom = <<>>

NoCapture == ~Issued("grim") /\ ~Issued("wl-copy") /\ ~Issued("show")

-----------------------------------------------------------------------------
(* Claims *)

WindowCancelLog ==
    <<"create_dir_all", "general:col.inactive_border",
      "general:col.active_border", "decoration:rounding",
      "decoration:dim_inactive", "decoration:inactive_opacity",
      "Custom:submap", "Workspace::get_active", "Clients::get", "slurp",
      "reload", "Custom:submap">>

\* C1: in a window-mode screenshot whose selection tool emits empty output
\* there is never a rasterization, a clipboard call or a notification, the
\* run does not panic, and when no compositor call fails the run ends with
\* Ok after exactly the calls of WindowCancelLog: the reload and then the
\* submap reset come last.
C1_WindowCancel ==
    (ScreenshotIn("Window") /\ Cancelled) =>
        /\ NoCapture
        /\ outcome # "Panic"
        /\ IsPrefix(Names(log), WindowCancelLog)
        /\ (pc = "done" /\ AllOk) =>
             /\ outcome = "Ok"
             /\ Names(log) = WindowCancelLog
             /\ log[Len(log)].text = "reset"
             /\ config = {}
             /\ submap = "default"

C1_Witness ==
    /\ ScreenshotIn("Window")
    /\ Cancelled
    /\ pc = "done"
    /\ outcome = "Ok"
    /\ Succeeded("reload")

\* C2: a window-mode run that reached the capture step has attempted the
\* reload when it ends, and the submap reset once the reload succeeded,
\* whatever the outcome of the rasterization and the clipboard step.
C2_RevertAfterCapture ==
    (ScreenshotIn("Window") /\ Issued("grim") /\ pc = "done") =>
        /\ Issued("reload")
        /\ Succeeded("reload") => Count("Custom:submap") = 2

TiledCommands == <<"ToggleFloating", "ResizeActive", "MoveActive">>

\* C3: toggle-float on a tiled window, with or without the center flag,
\* issues its commands in the order toggle-floating, resize, move, and a run
\* in which no call fails issues exactly these three.
C3_TiledOrder ==
    ToggleFloatOn(FALSE) =>
        /\ IsPrefix(DispatchNames, TiledCommands)
        /\ (pc = "done" /\ AllOk) =>
             (outcome = "Ok" /\ DispatchNames = TiledCommands)

C3_Witness ==
    /\ ToggleFloatOn(FALSE)
    /\ ~command.center
    /\ pc = "done"
    /\ outcome = "Ok"
    /\ DispatchNames = TiledCommands

\* C4: toggle-float on a floating window never issues a resize or a move,
\* whatever the center flag, the monitor and the cursor, and a run in which
\* no call fails issues exactly one command, the toggle-floating.
C4_FloatingSingleToggle ==
    ToggleFloatOn(TRUE) =>
        /\ ~Issued("ResizeActive")
        /\ ~Issued("MoveActive")
        /\ IsPrefix(DispatchNames, <<"ToggleFloating">>)
        /\ (pc = "done" /\ AllOk) =>
             (outcome = "Ok" /\ DispatchNames = <<"ToggleFloating">>)

C4_Witness ==
    /\ ToggleFloatOn(TRUE)
    /\ command.center
    /\ pc = "done"
    /\ outcome = "Ok"
    /\ DispatchNames = <<"ToggleFloating">>

\* the move of a cursor-anchored toggle-float on a tiled window was issued
CursorMoveIssued ==
    /\ ToggleFloatOn(FALSE)
    /\ ~command.center
    /\ Issued("MoveActive")

MoveArg == log[CHOOSE i \in 1..Len(log) : log[i].name = "MoveActive"].arg

ResizeArg == log[CHOOSE i \in 1..Len(log) : log[i].name = "ResizeActive"].arg

CursorInside ==
    /\ cursor.x >= 0 /\ cursor.x < monitor.width
    /\ cursor.y >= 0 /\ cursor.y < monitor.height

\* the bounds of the claim, in logical pixels times scale numerator (the
\* logical size is monitor.width * den / num)
LowX == (monitor.reserved[1] + gaps[1] + border) * monitor.num
HighX == monitor.width * monitor.den
           - (monitor.reserved[3] + gaps[3] + border) * monitor.num
           - (monitor.width * monitor.den) \div 2
LowY == (monitor.reserved[2] + gaps[2] + border) * monitor.num
HighY == monitor.height * monitor.den
           - (monitor.reserved[4] + gaps[4] + border) * monitor.num
           - (monitor.height * monitor.den) \div 2

InBoundsX == LowX <= MoveArg[1] * monitor.num /\ MoveArg[1] * monitor.num <= HighX
InBoundsY == LowY <= MoveArg[2] * monitor.num /\ MoveArg[2] * monitor.num <= HighY

\* C5, as stated: for every monitor and every cursor inside it the top-left
\* of the cursor-anchored rectangle lies within [reserved+gap+border,
\* logical size - reserved - gap - border - half size] on each axis.
C5_Original ==
    (CursorMoveIssued /\ CursorInside) => (InBoundsX /\ InBoundsY)

\* C5, amended: the top-left lies within these bounds on every axis on which
\* the bounds are not crossed (the margins of both sides are at most half the
\* logical size); on an axis where they are crossed the top-left is the lower
\* bound reserved+gap+border.
C5_Amended ==
    (CursorMoveIssued /\ CursorInside) =>
        /\ ResizeArg = <<(monitor.width * monitor.den) \div (2 * monitor.num),
                         (monitor.height * monitor.den) \div (2 * monitor.num)>>
        /\ IF LowX <= HighX THEN InBoundsX ELSE MoveArg[1] * monitor.num = LowX
        /\ IF LowY <= HighY THEN InBoundsY ELSE MoveArg[2] * monitor.num = LowY

\* the cursor is right of the upper clamp, which decides the position
C5_Witness ==
    /\ CursorMoveIssued
    /\ CursorInside
    /\ LowX <= HighX
    /\ cursor.x = monitor.width - 1
    /\ MoveArg[1] * monitor.num = HighX
    /\ pc = "done"

\* C6: in centering mode on a tiled window the resize is to half and the
\* move to a quarter of the logical monitor size (as integers), the cursor
\* is not even queried, and a run in which no call fails issues both.
C6_Center ==
    (ToggleFloatOn(FALSE) /\ command.center) =>
        /\ ~Issued("CursorPosition::get")
        /\ Issued("ResizeActive") =>
             ResizeArg = <<(monitor.width * monitor.den) \div (2 * monitor.num),
                           (monitor.height * monitor.den) \div (2 * monitor.num)>>
        /\ Issued("MoveActive") =>
             MoveArg = <<(monitor.width * monitor.den) \div (4 * monitor.num),
                         (monitor.height * monitor.den) \div (4 * monitor.num)>>
        /\ (pc = "done" /\ AllOk) =>
             (Succeeded("ResizeActive") /\ Succeeded("MoveActive"))

\* a monitor whose quarter width is not an integer (1366 / 4), the cursor
\* away from the centre
C6_Witness ==
    /\ ToggleFloatOn(FALSE)
    /\ command.center
    /\ monitor.width = 1366
    /\ cursor.x = 0
    /\ Succeeded("MoveActive")
    /\ MoveArg = <<341, 192>>

\* the scenario of C7: cursor (0,0), 1920x1080, scale 1, no reserved insets,
\* border 4, after the clamp ran
C7_Scenario ==
    /\ command.name = "ToggleFloat"
    /\ monitor = Monitors[1]
    /\ cursor = [x |-> 0, y |-> 0]
    /\ Succeeded("CursorPosition::get")

\* C7, as stated: the clamped x is 504 and the clamped y is 274.
C7_Original == C7_Scenario => (x = 504 * Unit /\ y = 274 * Unit)

\* C7, amended: with the gaps of the code, (20, 10, 20, 20), the clamped x
\* is 1920/4 + 20 + 0 + 4 = 504 and the clamped y is 1080/4 + 10 + 0 + 4 = 284.
C7_Amended == C7_Scenario => (x = 504 * Unit /\ y = 284 * Unit)

C7_Witness == C7_Scenario /\ Succeeded("MoveActive") /\ MoveArg = <<24, 14>>

\* C8: parsing the text that formatting a rectangle produced succeeds and
\* gives the rectangle back.
C8_RoundTrip ==
    (cstep = "parsed" /\ cinput.kind = "rect") => parsed = ParseOk(cinput.rect)

\* the fields of the codec input that cannot be read: a text that is not an
\* integer anywhere, a negative number in the unsigned width or height
Offending(i) ==
    \/ cinput.fields[i] \in {TokX, TokComma, TokWxH}
    \/ i \in {3, 4} /\ cinput.fields[i] = TokNeg

NonNumeric(i) == cinput.fields[i] \in {TokX, TokComma, TokWxH}

FirstOffending == CHOOSE i \in 1..4 : Offending(i) /\ \A j \in 1..(i - 1) : ~Offending(j)

\* C9: a text of fewer than 4 fields is rejected with WrongArgumentsCount; a
\* text of 4 fields one of which is not a number is rejected with
\* ParseArgument(index) where index (from 0) is that of the first field that
\* cannot be read; neither gives a rectangle.
C9_ParseRejects ==
    (cstep = "parsed" /\ cinput.kind = "text") =>
        /\ Len(cinput.fields) < 4 => parsed = WrongArgumentsCount
        /\ (Len(cinput.fields) = 4 /\ \E i \in 1..4 : NonNumeric(i)) =>
             parsed = ParseArgument(FirstOffending - 1)

\* four fields, the second and the fourth are not numbers
C9_Witness ==
    /\ cstep = "parsed"
    /\ cinput.kind = "text"
    /\ Len(cinput.fields) = 4
    /\ ~Offending(1) /\ NonNumeric(2) /\ NonNumeric(4)
    /\ parsed = ParseArgument(1)

\* the selection tool wrote a rectangle g out of rects with width <= 2 or
\* height <= 2
DegenerateFrom(rects) ==
    \E g \in rects :
        /\ g.width <= 2 \/ g.height <= 2
        /\ \E i \in 1..Len(log) :
             log[i].name = "slurp" /\ log[i].ok /\ log[i].geom = SlurpFmt(g)

IsRounded(r, v) ==
    /\ 2 * r * monitor.num - monitor.num <= 2 * v * monitor.den
    /\ 2 * v * monitor.den < 2 * r * monitor.num + monitor.num

Entries(name) == SelectSeq(log, LAMBDA e : e.name = name)

NoOverrideCalls ==
    \A i \in 1..Len(log) :
        log[i].kind \notin {"keyword", "ctl"} /\ log[i].name # "Custom:submap"

DisplayLog ==
    <<"create_dir_all", "Monitor::get_active", "grim", "wl-copy", "show",
      "open">>

\* C11: a display-mode screenshot calls no selection tool and issues no
\* keyword, submap switch or reload; once the monitor query succeeded its
\* rectangle is the monitor's position and its size divided by the scale and
\* rounded, with or without an active window; the rasterization is the next
\* call after the query and gets that rectangle, so the run is never
\* cancelled.
C11_Display ==
    ScreenshotIn("Display") =>
        /\ ~Issued("slurp")
        /\ NoOverrideCalls
        /\ IsPrefix(Names(log), DisplayLog)
        /\ Succeeded("Monitor::get_active") =>
             /\ result.some
             /\ result.value.x = monitor.x /\ result.value.y = monitor.y
             /\ IsRounded(result.value.width, monitor.width)
             /\ IsRounded(result.value.height, monitor.height)
             /\ pc # "ss_has_result" => has_result
        /\ Issued("grim") => Entries("grim")[1].geom = fmt(result.value)
        /\ (pc = "done" /\ AllOk) => (outcome = "Ok" /\ Succeeded("show"))

\* no active window, a monitor whose logical width 341.5 rounds to 342
C11_Witness ==
    /\ ScreenshotIn("Display")
    /\ ~window.present
    /\ monitor = Monitors[5]
    /\ result = Some(Geometry(-400, 0, 342, 192))
    /\ Succeeded("grim")
    /\ Entries("grim")[1].geom =
         <<"-", "4", "0", "0", ",", "0", " ", "3", "4", "2", "x", "1", "9", "2">>

FullscreenDispatches == Entries("Custom:fullscreenstate")

\* C12: toggle-fullscreen issues no command but the fullscreenstate
\* dispatch, at most once; with an active window and no failing call it
\* issues it exactly once, with state 3 if the window's fullscreen mode was
\* None and state 0 otherwise, and the companion -1; when the invocation
\* before this one found a window that was not fullscreen and both succeeded,
\* the window is back in fullscreen state 0.
C12_ToggleFullscreen ==
    command.name = "ToggleFullscreen" =>
        /\ DispatchNames = Names(FullscreenDispatches)
        /\ Len(FullscreenDispatches) <= 1
        /\ (window.present /\ pc = "done" /\ AllOk) =>
             /\ outcome = "Ok"
             /\ Len(FullscreenDispatches) = 1
             /\ FullscreenDispatches[1].arg =
                  <<IF active_window.fullscreen = 0 THEN 3 ELSE 0, -1>>
             /\ window.fullscreen = FullscreenDispatches[1].arg[1]
        /\ ( /\ past # <<>>
             /\ past[Len(past)].outcome = "Ok"
             /\ past[Len(past)].active_window.present
             /\ past[Len(past)].active_window.fullscreen = 0
             /\ pc = "done" /\ outcome = "Ok" ) =>
               (active_window.fullscreen = 3 /\ window.fullscreen = 0)

\* two successive invocations on a window that was not fullscreen
C12_Witness ==
    /\ command.name = "ToggleFullscreen"
    /\ Len(past) = 1
    /\ past[1].outcome = "Ok"
    /\ past[1].active_window.present
    /\ past[1].active_window.fullscreen = 0
    /\ pc = "done" /\ outcome = "Ok"
    /\ FullscreenDispatches[1].arg = <<0, -1>>
    /\ window.fullscreen = 0

\* C13: without an active window toggle-float and toggle-fullscreen make
\* no call but the active-window query, so no toggle, resize, move or custom
\* dispatch, and return Ok when that query succeeds.
C13_NoWindowNoOp ==
    (command.name \in {"ToggleFloat", "ToggleFullscreen"} /\ ~window.present) =>
        /\ DispatchNames = <<>>
        /\ IsPrefix(Names(log), <<"Client::get_active">>)
        /\ window = NoWindow
        /\ (pc = "done" /\ AllOk) =>
             (outcome = "Ok" /\ Names(log) = <<"Client::get_active">>)

C13_Witness ==
    /\ command.name = "ToggleFloat"
    /\ ~command.center
    /\ ~window.present
    /\ pc = "done"
    /\ outcome = "Ok"
    /\ Names(log) = <<"Client::get_active">>

\* the selection tool wrote the rectangle g
Wrote(g) ==
    \E i \in 1..Len(log) :
        log[i].name = "slurp" /\ log[i].ok /\ log[i].geom = SlurpFmt(g)

\* the selector of the mode returned a rectangle
Selected ==
    \/ ScreenshotIn("Display") /\ Succeeded("Monitor::get_active")
    \/ ScreenshotIn("Window") /\ \E g \in Candidates : Wrote(g)
    \/ /\ ScreenshotIn("Region")
       /\ \E g \in RegionRects : g.width > 2 /\ g.height > 2 /\ Wrote(g)

First(name) == CHOOSE i \in 1..Len(log) : log[i].name = name

\* C14: in every capture mode the rasterization, the clipboard call and the
\* notification occur at most once and in this order, and only after the
\* selector returned a rectangle; after an empty selection output none of
\* them occurs, nothing panics and the run ends with Ok; after a rectangle
\* each occurs exactly once.  The last two are stated for runs in which no
\* call fails and nothing panics.
C14_CaptureOnce ==
    command.name = "Screenshot" =>
        /\ Count("grim") <= 1 /\ Count("wl-copy") <= 1 /\ Count("show") <= 1
        /\ Issued("grim") => Selected
        /\ Issued("wl-copy") =>
             (Succeeded("grim") /\ First("grim") < First("wl-copy"))
        /\ Issued("show") =>
             (Succeeded("wl-copy") /\ First("wl-copy") < First("show"))
        /\ Cancelled =>
             /\ NoCapture
             /\ outcome # "Panic"
             /\ (pc = "done" /\ AllOk) => outcome = "Ok"
        /\ (Selected /\ pc = "done" /\ AllOk /\ outcome # "Panic") =>
             /\ outcome = "Ok"
             /\ Count("grim") = 1 /\ Count("wl-copy") = 1 /\ Count("show") = 1

\* a region selection that ends with the notification
C14_Witness ==
    /\ ScreenshotIn("Region")
    /\ Wrote(Geometry(100, 200, 300, 400))
    /\ pc = "done"
    /\ outcome = "Ok"
    /\ AllOk
    /\ Count("grim") = 1 /\ Count("wl-copy") = 1 /\ Count("show") = 1

IsCompositorCall(e) == e.kind \in {"query", "dispatch", "keyword", "ctl"}

\* the failing compositor call of the run l is its last call, and the run
\* ended there with an error
EndsAtError(l, at, res) ==
    \A i \in 1..Len(l) :
        (IsCompositorCall(l[i]) /\ ~l[i].ok) =>
            /\ i = Len(l)
            /\ at = "done"
            /\ res = "Err"

\* C15: a compositor query or command that fails is the last call of its
\* run in toggle-float, toggle-fullscreen and screenshot: no compositor
\* command, no subprocess, no notification and no second attempt follows it,
\* and the run ends with an error result.
C15_ErrorPropagates ==
    /\ EndsAtError(log, pc, outcome)
    /\ \A k \in 1..Len(past) : EndsAtError(past[k].log, "done", past[k].outcome)

\* a window-mode screenshot whose reload fails after the capture
C15_Witness ==
    /\ ScreenshotIn("Window")
    /\ Succeeded("grim")
    /\ Succeeded("wl-copy")
    /\ log[Len(log)].name = "reload"
    /\ ~log[Len(log)].ok
    /\ ~Issued("show")
    /\ pc = "done"
    /\ outcome = "Err"

WindowSelectedLog ==
    <<"create_dir_all", "general:col.inactive_border",
      "general:col.active_border", "decoration:rounding",
      "decoration:dim_inactive", "decoration:inactive_opacity",
      "Custom:submap", "Workspace::get_active", "Clients::get", "slurp",
      "grim", "wl-copy", "reload", "Custom:submap", "show", "open">>

\* the five keywords were accepted and the submap switched to "empty", in
\* this order, before the call at position i of the log
OverridesBefore(i) ==
    /\ i > Len(Overrides) + 2
    /\ \A k \in 1..Len(Overrides) :
         /\ log[k + 1].kind = "keyword"
         /\ log[k + 1].name = Overrides[k].key
         /\ log[k + 1].ok
    /\ log[Len(Overrides) + 2].name = "Custom:submap"
    /\ log[Len(Overrides) + 2].text = "empty"
    /\ log[Len(Overrides) + 2].ok

\* the reload and the submap reset were accepted, in this order, before the
\* call at position i of the log
RevertBefore(i) ==
    \E r \in 1..Len(log), d \in 1..Len(log) :
        /\ r < d /\ d < i
        /\ log[r].kind = "ctl" /\ log[r].name = "reload" /\ log[r].ok
        /\ log[d].name = "Custom:submap" /\ log[d].text = "reset" /\ log[d].ok

\* C16: in a window-mode screenshot the selection tool runs only after the
\* five keywords and the switch to the "empty" submap were accepted, and
\* while it runs the five overrides are set and the submap is "empty"; once
\* the tool wrote a candidate rectangle the calls of the run are, in order,
\* the overrides, the submap switch, the selection, rasterization, clipboard
\* copy, reload, submap reset, notification; the notification comes after
\* the accepted reload and reset, with the overrides gone and the default
\* submap back; a run in which no call fails gets as far as the
\* notification.
C16_WindowOrder ==
    ScreenshotIn("Window") =>
        /\ \A i \in 1..Len(log) : log[i].name = "slurp" => OverridesBefore(i)
        /\ pc \in {"gw_slurp", "gw_parse"} =>
             (Cardinality(config) = Len(Overrides) /\ submap = "empty")
        /\ \A i \in 1..Len(log) :
             log[i].name = "show" =>
                 (RevertBefore(i) /\ config = {} /\ submap = "default")
        /\ (\E g \in Candidates : Wrote(g)) =>
             /\ IsPrefix(Names(log), WindowSelectedLog)
             /\ (pc = "done" /\ AllOk) =>
                  (outcome = "Ok" /\ Len(log) >= Len(WindowSelectedLog) - 1)

\* a window-mode screenshot of a candidate, through to the notification
C16_Witness ==
    /\ ScreenshotIn("Window")
    /\ Wrote(Geometry(0, 0, 960, 1080))
    /\ pc = "done"
    /\ outcome = "Ok"
    /\ AllOk
    /\ Names(log) = WindowSelectedLog

\* C19: a region-mode or display-mode screenshot issues no keyword set, no
\* submap switch and no configuration reload on any path, and the
\* compositor's configuration and submap stay as they were; the run of any
\* command that issued one of these is a window-mode screenshot.
C19_ConfigUntouched ==
    /\ (ScreenshotIn("Region") \/ ScreenshotIn("Display")) =>
         (NoOverrideCalls /\ config = {} /\ submap = "default")
    /\ ~NoOverrideCalls => ScreenshotIn("Window")

\* a cancelled region-mode run that has returned
C19_Witness ==
    /\ ScreenshotIn("Region")
    /\ Cancelled
    /\ pc = "done"
    /\ outcome = "Ok"
    /\ Names(log) = <<"create_dir_all", "slurp">>
    /\ config = {}
    /\ submap = "default"

\* r is g with one pixel removed from every side
Inset(g, r) ==
    /\ r.x > g.x /\ r.x - 1 = g.x
    /\ r.y > g.y /\ r.y - 1 = g.y
    /\ r.width >= 1 /\ r.width + 2 = g.width
    /\ r.height >= 1 /\ r.height + 2 = g.height

\* C20: in region mode, once the text of a selection (x, y, w, h) with w > 2
\* and h > 2 was parsed, the selector has returned the rectangle
\* (x+1, y+1, w-2, h-2), whose width and height are at least 1, and the
\* rasterization gets exactly this rectangle.
C20_RegionInset ==
    \A g \in RegionRects :
        ( /\ ScreenshotIn("Region")
          /\ Wrote(g)
          /\ g.width > 2 /\ g.height > 2
          /\ pc # "gr_parse" ) =>
            /\ result.some
            /\ Inset(g, result.value)
            /\ \A i \in 1..Len(log) :
                 log[i].name = "grim" => log[i].geom = fmt(result.value)

\* C17: once the selection tool has terminated, the main flow returns from
\* wait_with_output, for every length of the candidate list, every pipe
\* capacity and every order in which the tool read, wrote and exited, and
\* whatever the writer thread does or fails to do: only the main flow is
\* assumed to keep running.
C17_MainReturns == (child.state = "exited") ~> (pc = "gw_parse")

\* the main flow has returned while the writer thread, with a list longer
\* than the pipe, has not written all of it
C17_Witness ==
    /\ pc = "gw_parse"
    /\ child.state = "exited"
    /\ clients > capacity
    /\ thread.state = "writing"
    /\ thread.written < clients

\* the steps of grab_window during which the overrides must be in place
SelectionSteps == {"gw_workspace", "gw_clients", "gw_slurp"}

\* all the calls of the log l were accepted, the five keywords and the
\* switch to the "empty" submap among them
OverridesAccepted(l) ==
    /\ \A i \in 1..Len(l) : l[i].ok
    /\ \A k \in 1..Len(Overrides) :
         \E i \in 1..Len(l) : l[i].kind = "keyword" /\ l[i].name = Overrides[k].key
    /\ \E i \in 1..Len(l) : l[i].name = "Custom:submap" /\ l[i].text = "empty"

\* C18: with two window-mode screenshots running at once, the reload that
\* one of them gets accepted clears the overrides, and its accepted submap
\* reset restores the default submap, wherever the other invocation is: no
\* lock keeps them in place for an invocation that is still selecting.
C18_NoLock ==
    [][ /\ (pc = "ss_reload" /\ which' = which /\ pc' = "ss_submap_reset")
           => config' = {}
        /\ (pc = "ss_submap_reset" /\ which' = which /\ pc' # pc
              /\ outcome' # "Err")
           => submap' = "default" ]_vars

\* one invocation is in its selection step, with its overrides and submap
\* switch accepted, and the other one has reverted them
C18_Witness ==
    /\ other.pc = "gw_slurp"
    /\ OverridesAccepted(other.log)
    /\ Succeeded("reload")
    /\ log[Len(log)].name = "Custom:submap"
    /\ log[Len(log)].text = "reset"
    /\ log[Len(log)].ok
    /\ config = {}
    /\ submap = "default"

SpecCodec == InitCodec /\ [][NextCodec]_vars

====
